---- MODULE Spec2Model ----
(***************************************************************************)
(* doppler-api: the service entry point (cmd/doppler-api/main.go) and the  *)
(* batching/broadcast pipeline it starts.                                  *)
(*                                                                         *)
(* main.go is modelled step by step from the source: kafkaParse and the    *)
(* part of net/url's Parse it relies on, the start-up sequence, the signal *)
(* goroutine, the server goroutine and the deferred release of resources.  *)
(* The connection manager (internal/service) is not part of the source     *)
(* tree at hand; its aggregator, dispatcher, registry and consumer loop    *)
(* are modelled from the written specification of the service.             *)
(***************************************************************************)
EXTENDS Integers, Sequences, FiniteSets, TLC

(***************************************************************************)
(* Bounds of the model                                                     *)
(***************************************************************************)
\* longest connection descriptor handed to kafkaParse
MaxLen == 7
\* signals the operating system delivers in one run
MaxSignals == 2
\* plain HTTP requests in flight at once
MaxReq == 1
\* streaming connections accepted in one run
MaxConns == 2
\* events the consumer loop pulls into the open batch (main's view)
MaxPulled == 2
\* batches the aggregator closes in one run
MaxBatches == 3
\* subscribers registered in one run
MaxSubs == 2
\* broadcasts started in one run
MaxBroadcasts == 2
\* capacity of a subscriber's outgoing buffer
BufCap == 1

(***************************************************************************)
(* Program constants (main.go)                                             *)
(***************************************************************************)
maxBatchSize == 100
minBatchSize == 1
batchInterval == 2000
truncateSize == 1

(***************************************************************************)
(* Strings are sequences of one-character strings.                         *)
(***************************************************************************)
Alphabet == {"a", "9", ":", "/"}
IsLetter(c) == c = "a"
IsDigit(c) == c = "9"

Take(s, k) == SubSeq(s, 1, k)
Drop(s, k) == SubSeq(s, k + 1, Len(s))
HasPrefix(s, p) == Len(s) >= Len(p) /\ Take(s, Len(p)) = p
\* strings.Index / strings.LastIndex, 1-based, 0 when absent
Index(s, c) ==
    IF \E i \in 1..Len(s) : s[i] = c
    THEN CHOOSE i \in 1..Len(s) : s[i] = c /\ \A j \in 1..(i - 1) : s[j] # c
    ELSE 0
LastIndex(s, c) ==
    IF \E i \in 1..Len(s) : s[i] = c
    THEN CHOOSE i \in 1..Len(s) : s[i] = c /\ \A j \in (i + 1)..Len(s) : s[j] # c
    ELSE 0

Descriptors == UNION {[1..n -> Alphabet] : n \in 0..MaxLen}

(***************************************************************************)
(* net/url: getScheme, parseHost and parse, as far as url.Parse(conn)      *)
(* decides u.Host and u.Path for descriptors over Alphabet.                *)
(***************************************************************************)
\* getScheme: letters go on; a digit at the first place, or any other
\* character, means there is no scheme; ':' ends the scheme and is an error
\* at the first place.
getScheme(raw) ==
    LET stops == {i \in 1..Len(raw) :
                     \/ raw[i] = ":"
                     \/ (IsDigit(raw[i]) /\ i = 1)
                     \/ (~IsLetter(raw[i]) /\ ~IsDigit(raw[i]))}
    IN  IF stops = {}
        THEN [err |-> FALSE, scheme |-> <<>>, rest |-> raw]
        ELSE LET i == CHOOSE k \in stops : \A j \in stops : k <= j
             IN  IF raw[i] = ":"
                 THEN IF i = 1
                      THEN [err |-> TRUE, scheme |-> <<>>, rest |-> <<>>]
                      ELSE [err |-> FALSE, scheme |-> Take(raw, i - 1),
                            rest |-> Drop(raw, i)]
                 ELSE [err |-> FALSE, scheme |-> <<>>, rest |-> raw]

\* validOptionalPort: "" or ':' followed by digits only
validOptionalPort(port) ==
    \/ port = <<>>
    \/ /\ port[1] = ":"
       /\ \A i \in 2..Len(port) : IsDigit(port[i])

\* parseHost: the text after the last ':' must be a valid port
validHost(host) ==
    LET i == LastIndex(host, ":")
    IN  i = 0 \/ validOptionalPort(Drop(host, i - 1))

ErrURL == [err |-> TRUE, Host |-> <<>>, Path |-> <<>>]

urlParse(raw) ==
    LET gs == getScheme(raw)
    IN  IF gs.err THEN ErrURL
        ELSE LET rest == gs.rest
                 seg  == IF Index(rest, "/") = 0 THEN rest
                         ELSE Take(rest, Index(rest, "/") - 1)
             IN  IF ~HasPrefix(rest, <<"/">>)
                 THEN IF gs.scheme # <<>>
                      THEN \* rootless path: opaque, no host and no path
                           [err |-> FALSE, Host |-> <<>>, Path |-> <<>>]
                      ELSE IF Index(seg, ":") # 0
                           THEN ErrURL
                           ELSE [err |-> FALSE, Host |-> <<>>, Path |-> rest]
                 ELSE IF /\ (gs.scheme # <<>> \/ ~HasPrefix(rest, <<"/", "/", "/">>))
                         /\ HasPrefix(rest, <<"/", "/">>)
                      THEN LET a0 == Drop(rest, 2)
                               i  == Index(a0, "/")
                               authority == IF i > 0 THEN Take(a0, i - 1) ELSE a0
                               path == IF i > 0 THEN Drop(a0, i - 1) ELSE <<>>
                           IN  IF validHost(authority)
                               THEN [err |-> FALSE, Host |-> authority, Path |-> path]
                               ELSE ErrURL
                      ELSE [err |-> FALSE, Host |-> <<>>, Path |-> rest]

(***************************************************************************)
(* kafkaParse (main.go)                                                    *)
(***************************************************************************)
ParseError == [address |-> <<>>, topic |-> <<>>, err |-> TRUE]

\* a slip: the check for the path "/" is left out
kafkaParse_noRootCheck(conn) ==
    LET u == urlParse(conn)
    IN  IF u.err THEN ParseError
        ELSE IF u.Host = <<>> THEN ParseError
        ELSE IF u.Path = <<>> THEN ParseError
        ELSE [address |-> u.Host, topic |-> Drop(u.Path, 1), err |-> FALSE]

kafkaParse(conn) ==
    LET u == urlParse(conn)
    IN  IF u.err THEN ParseError
        ELSE IF u.Host = <<>> THEN ParseError
        ELSE IF u.Path = <<>> \/ u.Path = <<"/">> THEN ParseError
        ELSE [address |-> u.Host, topic |-> Drop(u.Path, 1), err |-> FALSE]

VARIABLES conn, parsed, m, agg, reg

vars == <<conn, parsed, m, agg, reg>>


(***************************************************************************)
(* State of the other parts while one part is being explored               *)
(***************************************************************************)
NoResult == [done |-> FALSE, address |-> <<>>, topic |-> <<>>, err |-> FALSE]

MainIdle ==
    [pc |-> "idle", proc |-> "running",
     kafkaCon |-> <<>>, kafkaTopic |-> <<>>, kafkaErr |-> FALSE,
     cbErr |-> FALSE, consumer |-> "unset", consumerErr |-> FALSE,
     notified |-> FALSE, sigPc |-> "none", sigDelivered |-> 0, sigDropped |-> 0,
     ctxDone |-> FALSE, cancelCalls |-> 0,
     handlers |-> FALSE, consumePc |-> "none", pulled |-> 0, finalFlush |-> FALSE,
     srvPc |-> "none", listener |-> "none", inShutdown |-> FALSE,
     activeReq |-> 0, shutdownRes |-> "none",
     subs |-> {}, nextConn |-> 0,
     bucketClosed |-> 0, consumerClosed |-> 0, clientClosed |-> 0]

AggIdle ==
    [open |-> 0, due |-> FALSE, closed |-> FALSE, nextId |-> 0,
     handoff |-> <<>>, cur |-> 0, stage |-> "none",
     persistLog |-> <<>>, broadcastLog |-> <<>>,
     late |-> FALSE, oversized |-> FALSE, capFlushed |-> FALSE]

Handles == 1..MaxSubs
BatchIds == 1..MaxBroadcasts

RegIdle ==
    [registered |-> {}, nextHandle |-> 0,
     buf |-> [h \in Handles |-> <<>>], recv |-> [h \in Handles |-> <<>>],
     bcast |-> 0, todo |-> {}, nextB |-> 0,
     snap |-> [b \in BatchIds |-> {}], evictedBy |-> [b \in BatchIds |-> {}]]

(***************************************************************************)
(* kafkaParse applied to every descriptor                                  *)
(***************************************************************************)
InitParse ==
    /\ conn \in Descriptors
    /\ parsed = NoResult
    /\ m = MainIdle
    /\ agg = AggIdle
    /\ reg = RegIdle

CallKafkaParse ==
    /\ ~parsed.done
    /\ parsed' = [done |-> TRUE] @@ kafkaParse(conn)
    /\ UNCHANGED <<conn, m, agg, reg>>

NextParse == CallKafkaParse

SpecParse == InitParse /\ [][NextParse]_vars

(***************************************************************************)
(* main (main.go): start-up                                                *)
(***************************************************************************)
\* descriptors main is started with: none, a malformed one, one without a
\* topic, a well-formed one
MainDescriptors ==
    { <<>>, <<":">>, <<"/", "/", "a", "/">>, <<"/", "/", "a", "/", "a">> }

InitMain ==
    /\ conn \in MainDescriptors
    /\ parsed = NoResult
    /\ m = [MainIdle EXCEPT !.pc = "kafkaParse"]
    /\ agg = AggIdle
    /\ reg = RegIdle

Running == m.proc = "running"
Frame == UNCHANGED <<conn, parsed, agg, reg>>
Panic == [m EXCEPT !.pc = "panicked", !.proc = "panicked"]

\* lines 32-36: the error of kafkaParse is logged and main goes on
MainKafkaParse ==
    /\ Running /\ m.pc = "kafkaParse"
    /\ LET r == kafkaParse(conn)
       IN  m' = [m EXCEPT !.kafkaCon = r.address, !.kafkaTopic = r.topic,
                          !.kafkaErr = r.err, !.pc = "connectCB"]
    /\ Frame

\* a slip: the error of ConnectToCB is logged and main goes on
ConnectToCB_logOnly ==
    /\ Running /\ m.pc = "connectCB"
    /\ \E ok \in BOOLEAN :
          m' = [m EXCEPT !.cbErr = ~ok, !.pc = "createConsumer"]
    /\ Frame

\* lines 43-49: an error of ConnectToCB panics
ConnectToCB ==
    /\ Running /\ m.pc = "connectCB"
    /\ \E ok \in BOOLEAN :
          m' = IF ok
               THEN [m EXCEPT !.pc = "createConsumer"]
               ELSE [Panic EXCEPT !.cbErr = TRUE]
    /\ Frame

\* lines 162-183: sarama.NewConsumer or ConsumePartition fails when the
\* broker cannot be reached; an empty address or topic cannot be reached
createConsumer(kafkaCon, kafkaTopic, brokerUp) ==
    IF kafkaCon = <<>> \/ kafkaTopic = <<>> \/ ~brokerUp
    THEN [consumer |-> "nil", err |-> TRUE]
    ELSE [consumer |-> "valid", err |-> FALSE]

\* lines 51-56: the error of createConsumer is logged and main goes on
MainCreateConsumer ==
    /\ Running /\ m.pc = "createConsumer"
    /\ \E brokerUp \in BOOLEAN :
          LET r == createConsumer(m.kafkaCon, m.kafkaTopic, brokerUp)
          IN  m' = [m EXCEPT !.consumer = r.consumer, !.consumerErr = r.err,
                             !.pc = "newInflux"]
    /\ Frame

\* lines 58-67: an error of influx.NewHTTPClient panics
MainNewInflux ==
    /\ Running /\ m.pc = "newInflux"
    /\ \E ok \in BOOLEAN :
          m' = IF ok THEN [m EXCEPT !.pc = "notify"] ELSE Panic
    /\ Frame

\* lines 76-81: signal.Notify on an unbuffered channel, context.WithCancel
MainNotify ==
    /\ Running /\ m.pc = "notify"
    /\ m' = [m EXCEPT !.notified = TRUE, !.pc = "goSignal"]
    /\ Frame

\* lines 83-89: the goroutine that waits for the signal is started
MainGoSignal ==
    /\ Running /\ m.pc = "goSignal"
    /\ m' = [m EXCEPT !.sigPc = "spawned", !.pc = "newManager"]
    /\ Frame

\* the arguments main hands to NewConnectionManager, with a slip in their
\* order: the interval where the maximum belongs
ManagerConfig_intervalAsMax ==
    [maxBatchSize |-> batchInterval, minBatchSize |-> minBatchSize,
     batchInterval |-> maxBatchSize, truncateSize |-> truncateSize]

\* line 92: NewConnectionManager(maxBatchSize, minBatchSize, batchInterval,
\* truncateSize, cbConn)
ManagerConfig ==
    [maxBatchSize |-> maxBatchSize, minBatchSize |-> minBatchSize,
     batchInterval |-> batchInterval, truncateSize |-> truncateSize]

\* lines 91-97: the connection manager and the influx service are created
MainNewManager ==
    /\ Running /\ m.pc = "newManager"
    /\ m' = [m EXCEPT !.pc = "handle"]
    /\ Frame

\* lines 99-103: the two handlers are registered
MainHandle ==
    /\ Running /\ m.pc = "handle"
    /\ m' = [m EXCEPT !.handlers = TRUE, !.pc = "goConsume"]
    /\ Frame

\* lines 105-107: go connectionManager.Consume(ctx, consumer)
MainGoConsume ==
    /\ Running /\ m.pc = "goConsume"
    /\ m' = [m EXCEPT !.consumePc = "running", !.pc = "goServe"]
    /\ Frame

\* lines 109-119: the goroutine that serves is started
MainGoServe ==
    /\ Running /\ m.pc = "goServe"
    /\ m' = [m EXCEPT !.srvPc = "spawned", !.pc = "waitCtx"]
    /\ Frame


(***************************************************************************)
(* main (main.go): shutdown                                                *)
(***************************************************************************)
\* line 121: <-ctx.Done()
MainWaitCtx ==
    /\ Running /\ m.pc = "waitCtx"
    /\ m.ctxDone
    /\ m' = [m EXCEPT !.pc = "shutdown"]
    /\ Frame

\* lines 125-127: server.Shutdown marks the server as shutting down and
\* closes its listeners
MainShutdownBegin ==
    /\ Running /\ m.pc = "shutdown"
    /\ m' = [m EXCEPT !.inShutdown = TRUE,
                      !.listener = IF @ = "open" THEN "closed" ELSE @,
                      !.pc = "shutdownWait"]
    /\ Frame

\* lines 127-131: server.Shutdown returns nil once no request is active, or
\* the context's error when its 5 s are over; hijacked (streaming)
\* connections are not waited for
MainShutdownReturn ==
    /\ Running /\ m.pc = "shutdownWait"
    /\ m' = [m EXCEPT !.shutdownRes = IF m.activeReq = 0 THEN "ok" ELSE "timeout",
                      !.pc = "closeBucket"]
    /\ Frame

\* line 134, in the deferred function: cbConn.Bucket.Close()
MainCloseBucket ==
    /\ Running /\ m.pc = "closeBucket"
    /\ m' = [m EXCEPT !.bucketClosed = @ + 1, !.pc = "closeConsumer"]
    /\ Frame

\* line 135: consumer.Close(); a method call on a nil interface panics
MainCloseConsumer ==
    /\ Running /\ m.pc = "closeConsumer"
    /\ m' = IF m.consumer = "nil"
            THEN Panic
            ELSE [m EXCEPT !.consumerClosed = @ + 1, !.pc = "closeClient"]
    /\ Frame

\* line 136: c.Close()
MainCloseClient ==
    /\ Running /\ m.pc = "closeClient"
    /\ m' = [m EXCEPT !.clientClosed = @ + 1, !.pc = "svrCancel"]
    /\ Frame

\* lines 139-142: svrCancel(), main returns and the process ends with it
MainReturn ==
    /\ Running /\ m.pc = "svrCancel"
    /\ m' = [m EXCEPT !.pc = "returned", !.proc = "exited"]
    /\ Frame

(***************************************************************************)
(* The signal goroutine (main.go, lines 84-89) and the signals             *)
(***************************************************************************)
\* line 85: the goroutine reaches <-quit and blocks
SigListen ==
    /\ Running /\ m.sigPc = "spawned"
    /\ m' = [m EXCEPT !.sigPc = "waiting"]
    /\ Frame

\* an interrupt or terminate signal arrives before signal.Notify: the Go
\* runtime's default applies and the process ends at once
SignalKills ==
    /\ Running /\ ~m.notified
    /\ m.sigDelivered < MaxSignals
    /\ m' = [m EXCEPT !.sigDelivered = @ + 1, !.proc = "killed"]
    /\ Frame

\* an interrupt or terminate signal arrives: os/signal sends on quit without
\* blocking, so the signal is lost unless the goroutine is at <-quit
SignalArrives ==
    /\ Running /\ m.notified
    /\ m.sigDelivered < MaxSignals
    /\ m' = IF m.sigPc = "waiting"
            THEN [m EXCEPT !.sigDelivered = @ + 1, !.sigPc = "received"]
            ELSE [m EXCEPT !.sigDelivered = @ + 1, !.sigDropped = @ + 1]
    /\ Frame

\* lines 87-88: cancel()
SigCancel ==
    /\ Running /\ m.sigPc = "received"
    /\ m' = [m EXCEPT !.ctxDone = TRUE, !.cancelCalls = @ + 1, !.sigPc = "done"]
    /\ Frame

(***************************************************************************)
(* The server goroutine (main.go, lines 113-119) and its requests          *)
(***************************************************************************)
\* line 115: ListenAndServe returns ErrServerClosed at once after Shutdown,
\* listens otherwise; a failure to listen panics
SrvListenAndServe ==
    /\ Running /\ m.srvPc = "spawned"
    /\ \/ /\ m.inShutdown
          /\ m' = [m EXCEPT !.srvPc = "waitCtx"]
       \/ /\ ~m.inShutdown
          /\ \E ok \in BOOLEAN :
                m' = IF ok
                     THEN [m EXCEPT !.srvPc = "serving", !.listener = "open"]
                     ELSE Panic
    /\ Frame

\* line 115: ListenAndServe returns ErrServerClosed after Shutdown
SrvServeReturns ==
    /\ Running /\ m.srvPc = "serving"
    /\ m.inShutdown
    /\ m' = [m EXCEPT !.srvPc = "waitCtx"]
    /\ Frame

\* line 118: <-ctx.Done()
SrvWaitCtx ==
    /\ Running /\ m.srvPc = "waitCtx"
    /\ m.ctxDone
    /\ m' = [m EXCEPT !.srvPc = "done"]
    /\ Frame

\* a request to /receive/ajax is being served
ReqStart ==
    /\ Running /\ m.listener = "open" /\ m.handlers
    /\ m.activeReq < MaxReq
    /\ m' = [m EXCEPT !.activeReq = @ + 1]
    /\ Frame

ReqEnd ==
    /\ Running /\ m.activeReq > 0
    /\ m' = [m EXCEPT !.activeReq = @ - 1]
    /\ Frame

(***************************************************************************)
(* The connection manager as main uses it: the serving contexts of         *)
(* /receive/ws and the consumer loop                                       *)
(***************************************************************************)
\* a streaming connection is accepted and its subscriber registered
WsConnect ==
    /\ Running /\ m.listener = "open" /\ m.handlers
    /\ m.nextConn < MaxConns
    /\ m' = [m EXCEPT !.nextConn = @ + 1, !.subs = @ \cup {m.nextConn + 1}]
    /\ Frame

\* the client disconnects: the serving context unregisters
WsDisconnect ==
    /\ Running
    /\ \E h \in m.subs : m' = [m EXCEPT !.subs = @ \ {h}]
    /\ Frame

\* the serving context sees the cancellation, drains and unregisters
WsObserveCancel ==
    /\ Running /\ m.ctxDone
    /\ \E h \in m.subs : m' = [m EXCEPT !.subs = @ \ {h}]
    /\ Frame

\* one round of the consumer loop while not cancelled: it pulls from the
\* consumer main handed over; a nil consumer panics
ConsumePull ==
    /\ Running /\ m.consumePc = "running"
    /\ ~m.ctxDone
    /\ \/ /\ m.consumer # "valid"
          /\ m' = Panic
       \/ /\ m.consumer = "valid"
          /\ m.pulled < MaxPulled
          /\ m' = [m EXCEPT !.pulled = @ + 1]
    /\ Frame

\* the consumer loop sees the cancellation and stops pulling
ConsumeObserveCancel ==
    /\ Running /\ m.consumePc = "running"
    /\ m.ctxDone
    /\ m' = [m EXCEPT !.consumePc = "closing"]
    /\ Frame

\* the final Close() of the aggregator, then Consume returns
ConsumeFinalFlush ==
    /\ Running /\ m.consumePc = "closing"
    /\ m' = [m EXCEPT !.finalFlush = TRUE, !.pulled = 0, !.consumePc = "exited"]
    /\ Frame

MainStep ==
    \/ MainKafkaParse \/ ConnectToCB \/ MainCreateConsumer \/ MainNewInflux
    \/ MainNotify \/ MainGoSignal \/ MainNewManager \/ MainHandle
    \/ MainGoConsume \/ MainGoServe \/ MainWaitCtx
    \/ MainShutdownBegin \/ MainShutdownReturn
    \/ MainCloseBucket \/ MainCloseConsumer \/ MainCloseClient \/ MainReturn

GoroutineStep ==
    \/ SigListen \/ SigCancel
    \/ SrvListenAndServe \/ SrvServeReturns \/ SrvWaitCtx
    \/ ConsumeObserveCancel \/ ConsumeFinalFlush \/ WsObserveCancel

EnvStep ==
    \/ SignalKills \/ SignalArrives \/ ReqStart \/ ReqEnd
    \/ WsConnect \/ WsDisconnect \/ ConsumePull

Next == MainStep \/ GoroutineStep \/ EnvStep

Spec == InitMain /\ [][Next]_vars

\* the Go scheduler runs every goroutine that can run; signals, requests,
\* connections and events come when they come
FairSpec ==
    /\ Spec
    /\ WF_vars(MainStep)
    /\ WF_vars(SigListen) /\ WF_vars(SigCancel)
    /\ WF_vars(SrvListenAndServe) /\ WF_vars(SrvServeReturns) /\ WF_vars(SrvWaitCtx)
    /\ WF_vars(ConsumeObserveCancel) /\ WF_vars(ConsumeFinalFlush)
    /\ WF_vars(WsObserveCancel)


(***************************************************************************)
(* Properties of main                                                      *)
(***************************************************************************)
Releasing ==
    \/ m.bucketClosed > 0 \/ m.consumerClosed > 0 \/ m.clientClosed > 0
    \/ m.pc \in {"closeBucket", "closeConsumer", "closeClient"}

\* C1: with a working consumer, main releases the durable store and the log
\* source, and returns, only after Consume has returned and the final flush
\* of the open batch has been attempted.
C1_ShutdownWaitsForConsume ==
    (/\ m.consumer = "valid"
     /\ (m.bucketClosed > 0 \/ m.consumerClosed > 0 \/ m.pc = "returned"))
        => (m.consumePc = "exited" /\ m.finalFlush)

\* C2: when kafkaParse or createConsumer returns an error, the handlers are
\* never registered, Consume is never started and the server never starts.
C2_KafkaFailureIsFatal ==
    (m.kafkaErr \/ m.consumerErr)
        => (~m.handlers /\ m.consumePc = "none" /\ m.srvPc = "none")

\* C3: when ConnectToCB returns an error the process has panicked, and no
\* later start-up step has been reached: no consumer was created, no signal
\* handler, handler, consumer loop or server was set up.
C3_CouchbaseFailureIsFatal ==
    m.cbErr =>
        /\ m.proc = "panicked"
        /\ m.consumer = "unset" /\ ~m.consumerErr
        /\ ~m.notified /\ m.sigPc = "none"
        /\ ~m.handlers
        /\ m.consumePc = "none"
        /\ m.srvPc = "none" /\ m.listener = "none"

C3_Witness == m.cbErr /\ m.pc = "panicked" /\ ~m.kafkaErr

\* C4: once a signal has been delivered to the process (here with a working
\* consumer and a server that listens), the process ends having closed the
\* bucket, the consumer and the query client.
C4_SignalLeadsToRelease ==
    (m.sigDelivered > 0 /\ m.consumer = "valid" /\ m.srvPc = "serving")
        ~> (/\ m.proc = "exited"
            /\ m.bucketClosed = 1 /\ m.consumerClosed = 1 /\ m.clientClosed = 1)

\* C5: when the process has ended after the cancel(), every serving context
\* has seen the cancellation and unregistered its subscriber: none is left
\* registered.  (That the consumer loop has seen it too is part of C1.)
C5_CancelReachesAll ==
    (m.proc = "exited" /\ m.cancelCalls > 0) => m.subs = {}

\* C10: the bucket, the consumer and the query client are closed only after
\* the cancellation and after server.Shutdown has returned, with the server
\* no longer accepting, each at most once, and the consumer main closes is
\* not nil.
C10_ReleaseOrder ==
    /\ Releasing => (m.cancelCalls > 0 /\ m.shutdownRes # "none"
                        /\ m.listener # "open")
    /\ m.bucketClosed <= 1 /\ m.consumerClosed <= 1 /\ m.clientClosed <= 1
    /\ m.pc = "closeConsumer" => m.consumer = "valid"


(***************************************************************************)
(* The batch aggregator and its dispatcher, configured by main             *)
(***************************************************************************)
InitPipeline ==
    /\ conn = <<>>
    /\ parsed = NoResult
    /\ m = MainIdle
    /\ agg = AggIdle
    /\ reg = RegIdle

PipeFrame == UNCHANGED <<conn, parsed, m, reg>>

CanFlush == agg.nextId < MaxBatches

\* the open batch of n events is closed and handed over; a new batch opens
\* with a fresh timer
Flushed(a, n, byCap) ==
    [a EXCEPT !.nextId = @ + 1,
              !.handoff = Append(@, a.nextId + 1),
              !.open = 0, !.due = FALSE,
              !.oversized = @ \/ (n > maxBatchSize),
              !.capFlushed = @ \/ byCap]

\* Ingest: append to the open batch, flush at maxBatchSize; after Close()
\* the event is rejected and reported
Ingest ==
    /\ \/ /\ agg.closed
          /\ ~agg.late
          /\ agg' = [agg EXCEPT !.late = TRUE]
       \/ /\ ~agg.closed
          /\ agg.open + 1 < ManagerConfig.maxBatchSize
          /\ agg' = [agg EXCEPT !.open = @ + 1]
       \/ /\ ~agg.closed
          /\ agg.open + 1 >= ManagerConfig.maxBatchSize
          /\ CanFlush
          /\ agg' = Flushed(agg, agg.open + 1, TRUE)
    /\ PipeFrame

\* batchInterval has passed since the batch opened
TimerElapse ==
    /\ ~agg.closed /\ ~agg.due
    /\ agg' = [agg EXCEPT !.due = TRUE]
    /\ PipeFrame

\* the timer's flush: at least minBatchSize events are flushed, fewer extend
\* the window
TimerFlush ==
    /\ ~agg.closed /\ agg.due
    /\ \/ /\ agg.open >= ManagerConfig.minBatchSize
          /\ CanFlush
          /\ agg' = Flushed(agg, agg.open, FALSE)
       \/ /\ agg.open < ManagerConfig.minBatchSize
          /\ agg' = [agg EXCEPT !.due = FALSE]
    /\ PipeFrame

\* Close(): whatever has accumulated is flushed
Close ==
    /\ ~agg.closed
    /\ \/ /\ agg.open > 0
          /\ CanFlush
          /\ agg' = [Flushed(agg, agg.open, FALSE) EXCEPT !.closed = TRUE]
       \/ /\ agg.open = 0
          /\ agg' = [agg EXCEPT !.closed = TRUE, !.due = FALSE]
    /\ PipeFrame

\* a slip: the dispatcher takes the batch closed last
DispatchTake_newestFirst ==
    /\ agg.cur = 0 /\ agg.handoff # <<>>
    /\ agg' = [agg EXCEPT !.cur = agg.handoff[Len(agg.handoff)],
                          !.handoff = SubSeq(@, 1, Len(@) - 1),
                          !.stage = "writing"]
    /\ PipeFrame

\* the dispatcher takes the batch closed first
DispatchTake ==
    /\ agg.cur = 0 /\ agg.handoff # <<>>
    /\ agg' = [agg EXCEPT !.cur = Head(agg.handoff),
                          !.handoff = Tail(@),
                          !.stage = "writing"]
    /\ PipeFrame

\* Write(batch): it succeeds, or fails for good and is recorded as failed
DispatchWrite ==
    /\ agg.stage = "writing"
    /\ \E ok \in BOOLEAN :
          agg' = [agg EXCEPT !.persistLog = Append(@, agg.cur),
                             !.stage = IF ok THEN "written" ELSE "writeFailed"]
    /\ PipeFrame

\* Broadcast(batch), after the write has ended either way
DispatchBroadcast ==
    /\ agg.stage \in {"written", "writeFailed"}
    /\ agg' = [agg EXCEPT !.broadcastLog = Append(@, agg.cur),
                          !.cur = 0, !.stage = "none"]
    /\ PipeFrame

NextPipeline ==
    \/ Ingest \/ TimerElapse \/ TimerFlush \/ Close
    \/ DispatchTake \/ DispatchWrite \/ DispatchBroadcast

SpecPipeline == InitPipeline /\ [][NextPipeline]_vars

\* C6: no batch handed to the sink and to Broadcast holds more than
\* maxBatchSize (100) events, and the open batch stays below maxBatchSize:
\* reaching it flushes at once and later events go to a new batch.
C6_BatchNeverExceedsMax ==
    /\ ~agg.oversized
    /\ agg.open < maxBatchSize

C6_Witness ==
    /\ agg.capFlushed /\ agg.open > 0
    /\ Len(agg.broadcastLog) >= 1

InitRegistry ==
    /\ conn = <<>>
    /\ parsed = NoResult
    /\ m = MainIdle
    /\ agg = AggIdle
    /\ reg = RegIdle

RegFrame == UNCHANGED <<conn, parsed, m, agg>>

\* Register: a new subscriber under a handle never used before
Register ==
    /\ reg.nextHandle < MaxSubs
    /\ reg' = [reg EXCEPT !.nextHandle = @ + 1,
                          !.registered = @ \cup {reg.nextHandle + 1}]
    /\ RegFrame

\* Unregister: the subscriber is removed; a second call changes nothing
Unregister ==
    /\ \E h \in 1..reg.nextHandle :
          reg' = [reg EXCEPT !.registered = @ \ {h}]
    /\ RegFrame

\* Broadcast begins: the set of subscribers is snapshotted
BroadcastStart ==
    /\ reg.bcast = 0
    /\ reg.nextB < MaxBroadcasts
    /\ LET b == reg.nextB + 1
       IN  reg' = [reg EXCEPT !.nextB = b, !.bcast = b,
                              !.todo = reg.registered,
                              !.snap[b] = reg.registered]
    /\ RegFrame

\* a slip: a subscriber whose buffer is full is passed over and stays
BroadcastSend_skipWhenFull ==
    /\ reg.bcast # 0
    /\ \E h \in reg.todo :
          reg' = IF Len(reg.buf[h]) < BufCap
                 THEN [reg EXCEPT !.buf[h] = Append(@, reg.bcast),
                                  !.recv[h] = Append(@, reg.bcast),
                                  !.todo = @ \ {h}]
                 ELSE [reg EXCEPT !.todo = @ \ {h}]
    /\ RegFrame

\* the send to one subscriber of the snapshot, without blocking: into its
\* buffer, or, the buffer being full, its eviction
BroadcastSend ==
    /\ reg.bcast # 0
    /\ \E h \in reg.todo :
          reg' = IF Len(reg.buf[h]) < BufCap
                 THEN [reg EXCEPT !.buf[h] = Append(@, reg.bcast),
                                  !.recv[h] = Append(@, reg.bcast),
                                  !.todo = @ \ {h}]
                 ELSE [reg EXCEPT !.registered = @ \ {h},
                                  !.evictedBy[reg.bcast] = @ \cup {h},
                                  !.todo = @ \ {h}]
    /\ RegFrame

\* Broadcast returns
BroadcastEnd ==
    /\ reg.bcast # 0 /\ reg.todo = {}
    /\ reg' = [reg EXCEPT !.bcast = 0]
    /\ RegFrame

\* the subscriber's connection takes the oldest batch out of its buffer
Drain ==
    /\ \E h \in Handles :
          /\ reg.buf[h] # <<>>
          /\ reg' = [reg EXCEPT !.buf[h] = Tail(@)]
    /\ RegFrame

NextRegistry ==
    \/ Register \/ Unregister
    \/ BroadcastStart \/ BroadcastSend \/ BroadcastEnd
    \/ Drain

SpecRegistry == InitRegistry /\ [][NextRegistry]_vars

Copies(q, b) == Cardinality({i \in 1..Len(q) : q[i] = b})
Completed(b) == b <= reg.nextB /\ b # reg.bcast

\* C8: after a broadcast, every subscriber of its snapshot has got the batch
\* exactly once, or was evicted by this broadcast and is no longer
\* registered; no subscriber gets a batch twice or out of order.
C8_DeliveredOnceOrEvicted ==
    /\ \A b \in BatchIds : Completed(b) =>
          \A h \in reg.snap[b] :
             \/ Copies(reg.recv[h], b) = 1 /\ h \notin reg.evictedBy[b]
             \/ /\ Copies(reg.recv[h], b) = 0
                /\ h \in reg.evictedBy[b] /\ h \notin reg.registered
    /\ \A h \in Handles :
          \A i, j \in 1..Len(reg.recv[h]) :
             i < j => reg.recv[h][i] < reg.recv[h][j]

C8_Witness ==
    /\ reg.bcast = 0 /\ reg.nextB = 2
    /\ \E h, k \in reg.snap[2] :
          /\ h \in reg.evictedBy[2]
          /\ reg.recv[k] = <<1, 2>>

\* C9: kafkaParse returns the host and the path without its leading "/" for
\* a descriptor that parses with a host and a path other than "" and "/",
\* and ("", "", error) for every other; a descriptor it accepts reads
\* [scheme:]//address/topic.
C9_KafkaParseSplits ==
    parsed.done =>
        LET u == urlParse(conn)
        IN  IF ~u.err /\ u.Host # <<>> /\ u.Path # <<>> /\ u.Path # <<"/">>
            THEN /\ ~parsed.err
                 /\ parsed.address = u.Host
                 /\ <<"/">> \o parsed.topic = u.Path
                 /\ parsed.address # <<>> /\ parsed.topic # <<>>
                 /\ \E k \in 0..Len(conn) :
                       /\ k > 0 => (conn[k] = ":" /\ IsLetter(conn[1]))
                       /\ Drop(conn, k) = <<"/", "/">> \o parsed.address
                                             \o <<"/">> \o parsed.topic
            ELSE /\ parsed.err
                 /\ parsed.address = <<>> /\ parsed.topic = <<>>

C9_Witness ==
    /\ parsed.done /\ ~parsed.err
    /\ parsed.address = <<"a", ":", "9">>
    /\ parsed.topic = <<"a">>

====
